---- MODULE Spec2Model ----
(***************************************************************************)
(* Ledger of expiring bonus points (internal/data/transactions.go).        *)
(* The table "transactions" holds one row per grant (a lot); withdrawals   *)
(* run inside a READ COMMITTED transaction that locks the owner's active   *)
(* rows with SELECT ... FOR UPDATE and deducts in FIFO-by-expiry order.    *)
(* internal/data/transactions.go carries two revisions of the data layer   *)
(* (lines 1-245 and lines 247-489); impl says which one is running.        *)
(***************************************************************************)
EXTENDS Integers, Sequences, FiniteSets, TLC

\* ------------------------------------------------------------------ bounds
NumProcs == 3          \* call threads that can run WithdrawBonusPoints
MaxConc == 2           \* threads that start calls on their own in Spec
MaxLots == 2           \* rows the transactions table may hold in Spec
MaxTime == 2           \* last clock tick
MaxAmount == 2         \* largest amount passed to a call
MaxGrant == 3          \* largest single lot of the concurrency scenario
FifoLots == 3          \* rows of the table of the FIFO scenario
FifoAmount == 3        \* largest amount withdrawn in the FIFO scenario

\* ------------------------------------------------------- program constants
DayLen == 2            \* clock ticks per calendar day
HorizonDays == 30      \* INTERVAL '30 days'

\* the default taken to be the 30 days of the expirations window
WindowAsDefault == HorizonDays

defaultLifetimeDays == 365   \* lifetime of a deposit that names none

Users == {"u1", "u2"}
Procs == 1..NumProcs
Amounts == (-1)..MaxAmount
Lifetimes == {1, 31}
Revisions == {"rev1", "rev2"}
Handlers == {"int", "ptr"}   \* LifetimeDays int / LifetimeDays *int
RequestTypes == {"deposit", "withdrawal", "transfer"}
GivenLifetimes == (-1)..1    \* values of an explicit "lifetime_days"

VARIABLES
  lots,        \* committed rows of table transactions, in insertion order
  clock,       \* value NOW() would return for a statement starting now
  impl,        \* revision of the data layer in use
  wd,          \* wd[p]: state of thread p inside WithdrawBonusPoints
  gb,          \* state of the thread inside GetBalanceWithExpiration
  spent,       \* spent[i]: points committed withdrawals deducted from lot i
  withdrawn,   \* withdrawn[u]: sum of amounts of u's successful withdrawals
  api          \* state of the thread inside createTransactionHandler

vars == <<lots, clock, impl, wd, gb, spent, withdrawn, api>>

\* ----------------------------------------------------------------- helpers
NoRows == [i \in {} |-> 0]

Min(a, b) == IF a < b THEN a ELSE b

RECURSIVE SumOver(_, _)
\* sum of f[i] over the finite set S of indices
SumOver(f, S) ==
  IF S = {} THEN 0
  ELSE LET i == CHOOSE x \in S : TRUE IN f[i] + SumOver(f, S \ {i})

Remainings(t) == [i \in DOMAIN t |-> t[i].remaining]

\* a table without CHECK constraints
NoConstraints(amount, remaining) == TRUE

\* CHECK (amount > 0), CHECK (remaining_amount >= 0),
\* CHECK (remaining_amount <= amount)
CheckConstraints(amount, remaining) ==
  /\ amount > 0
  /\ remaining >= 0
  /\ remaining <= amount

\* the WHERE clause without "expires_at > NOW()"
UnexpiredOrNot(t, u, now) ==
  {i \in DOMAIN t : t[i].userId = u /\ t[i].remaining > 0}

\* the WHERE clause without "user_id = $1"
AnyUserRows(t, u, now) ==
  {i \in DOMAIN t : t[i].expiresAt > now /\ t[i].remaining > 0}

\* rows matched by: user_id = $1 AND expires_at > NOW() AND remaining_amount > 0
ActiveRows(t, u, now) ==
  {i \in DOMAIN t : t[i].userId = u /\ t[i].expiresAt > now /\ t[i].remaining > 0}

\* ORDER BY expires_at ASC (rev1): no rule for equal expires_at
Rev1Before(a, b) == a.expiresAt <= b.expiresAt

\* ORDER BY expires_at ASC, created_at ASC (rev2)
Rev2Before(a, b) ==
  \/ a.expiresAt < b.expiresAt
  \/ a.expiresAt = b.expiresAt /\ a.createdAt <= b.createdAt

\* a query without ORDER BY
AnyOrder(rev, a, b) == TRUE

OrderBefore(rev, a, b) == IF rev = "rev1" THEN Rev1Before(a, b) ELSE Rev2Before(a, b)

\* every sequence the database may return for the rows S under ORDER BY:
\* rows the sort key does not separate come in any order
OrderedRows(rev, t, S) ==
  LET n == Cardinality(S) IN
  {s \in [1..n -> S] :
     /\ \A i, j \in 1..n : i # j => s[i] # s[j]
     /\ \A i, j \in 1..n : i < j => OrderBefore(rev, t[s[i]], t[s[j]])}

\* state of a thread that is not inside WithdrawBonusPoints
IdleW == [pc |-> "idle", userId |-> "u1", amount |-> 0, now |-> 0,
          cand |-> <<>>, availableTxs |-> <<>>, locked |-> {},
          pending |-> NoRows, remainingToDeduct |-> 0, idx |-> 1,
          aborted |-> FALSE, result |-> "none", undone |-> 0]

\* no result of an earlier call to compare with
NoResult == [known |-> FALSE, totalBalance |-> 0, expirations |-> NoRows]

\* state of a thread that is not inside GetBalanceWithExpiration: result is
\* what the last call returned ("ok" for a nil error), failed tells whether a
\* query of that call failed, prev is the result of the call before it when
\* the caller repeated the call
IdleG == [pc |-> "idle", userId |-> "u1", totalBalance |-> 0,
          expirations |-> NoRows, result |-> "none", failed |-> FALSE,
          prev |-> NoResult]

\* a return that leaves the transaction open: the row locks stay
LeakedLocks(w, res) ==
  [IdleW EXCEPT !.result = res, !.aborted = w.aborted, !.locked = w.locked,
                !.undone = IF res = "ok" THEN 0 ELSE Cardinality(DOMAIN w.pending)]

\* the call has returned res: the transaction is over, its locks are gone,
\* and the thread is free for the next call (aborted tells whether a failure
\* of the lock query went unnoticed by the call, undone how many row updates
\* the deferred tx.Rollback() discarded)
Finished(w, res) ==
  [IdleW EXCEPT !.result = res, !.aborted = w.aborted,
                !.undone = IF res = "ok" THEN 0 ELSE Cardinality(DOMAIN w.pending)]

\* ---------------------------------------------------------- AddBonusPoints
\* the interval built without the unit "days"
LifetimeInTicks(u, amount, lifetimeDays, now) ==
  [userId |-> u, amount |-> amount, remaining |-> amount,
   createdAt |-> now, expiresAt |-> now + lifetimeDays]

\* INSERT ... VALUES ($1, $2, NOW() + $3 days, $2): one statement, one row
NewLot(u, amount, lifetimeDays, now) ==
  [userId |-> u, amount |-> amount, remaining |-> amount,
   createdAt |-> now, expiresAt |-> now + lifetimeDays * DayLen]

\* a grant that tops up a row of the owner with the same expires_at, if there
\* is one, instead of inserting a row
MergingGrant(u, amount, lifetimeDays) ==
  /\ Len(lots) < MaxLots
  /\ LET new == NewLot(u, amount, lifetimeDays, clock)
         same == {i \in DOMAIN lots : lots[i].userId = u
                                      /\ lots[i].expiresAt = new.expiresAt}
     IN IF ~CheckConstraints(amount, amount) THEN UNCHANGED <<lots, spent>>
        ELSE IF same = {}
          THEN lots' = Append(lots, new) /\ spent' = Append(spent, 0)
          ELSE LET i == CHOOSE i \in same : TRUE IN
               /\ lots' = [lots EXCEPT ![i].amount = @ + amount,
                                        ![i].remaining = @ + amount]
               /\ UNCHANGED spent
  /\ UNCHANGED <<clock, impl, wd, gb, withdrawn>>

\* an INSERT that has to wait while a withdrawal holds row locks
BlockingGrant(u, amount, lifetimeDays) ==
  /\ \A p \in Procs : wd[p].locked = {}
  /\ Len(lots) < MaxLots
  /\ IF CheckConstraints(amount, amount)
       THEN /\ lots' = Append(lots, NewLot(u, amount, lifetimeDays, clock))
            /\ spent' = Append(spent, 0)
       ELSE UNCHANGED <<lots, spent>>
  /\ UNCHANGED <<clock, impl, wd, gb, withdrawn>>

AddBonusPoints(u, amount, lifetimeDays) ==
  /\ Len(lots) < MaxLots
  /\ IF CheckConstraints(amount, amount)
       THEN /\ lots' = Append(lots, NewLot(u, amount, lifetimeDays, clock))
            /\ spent' = Append(spent, 0)
       ELSE UNCHANGED <<lots, spent>>
  /\ UNCHANGED <<clock, impl, wd, gb, withdrawn>>

\* ----------------------------------------------------- WithdrawBonusPoints
\* BeginTx: NOW() of every statement of the transaction is its start time
WBegin(p, u, amount) ==
  /\ wd[p].pc = "idle"
  /\ wd' = [wd EXCEPT ![p] = [IdleW EXCEPT !.pc = "begun", !.userId = u,
                                          !.amount = amount, !.now = clock]]
  /\ UNCHANGED <<lots, clock, impl, gb, spent, withdrawn>>

\* SELECT ... ORDER BY ... FOR UPDATE starts: the statement's snapshot fixes
\* the candidate rows and their order
WQuery(p) ==
  /\ wd[p].pc = "begun"
  /\ \E s \in OrderedRows(impl, lots, ActiveRows(lots, wd[p].userId, wd[p].now)) :
       wd' = [wd EXCEPT ![p].pc = "lock", ![p].cand = s]
  /\ UNCHANGED <<lots, clock, impl, gb, spent, withdrawn, api>>

\* the query without FOR UPDATE: nobody waits
NeverLocked(p, i) == FALSE

LockedByOther(p, i) == \E q \in Procs \ {p} : i \in wd[q].locked

\* the next candidate row is locked once no other transaction holds it; the
\* row's latest committed version is re-checked against the WHERE clause and
\* returned by rows.Next / rows.Scan
WLock(p) ==
  /\ wd[p].pc = "lock"
  /\ wd[p].cand # <<>>
  /\ LET i == Head(wd[p].cand) IN
       /\ ~LockedByOther(p, i)
       /\ wd' = [wd EXCEPT
            ![p].cand = Tail(wd[p].cand),
            ![p].locked = wd[p].locked \cup {i},
            ![p].availableTxs =
               IF lots[i].remaining > 0
                 THEN Append(wd[p].availableTxs,
                             [id |-> i, remainingAmount |-> lots[i].remaining])
                 ELSE wd[p].availableTxs]
  /\ UNCHANGED <<lots, clock, impl, gb, spent, withdrawn, api>>

TotalAvailable(txs) ==
  SumOver([k \in DOMAIN txs |-> txs[k].remainingAmount], DOMAIN txs)

\* tx.Commit(): the rows the transaction updated replace the committed ones
Commit(t, w) ==
  [i \in DOMAIN t |->
     IF i \in DOMAIN w.pending THEN [t[i] EXCEPT !.remaining = w.pending[i]]
                               ELSE t[i]]

\* a return path that leaves the updates made so far in the table
RollbackKeeps(t, w) == Commit(t, w)

\* a return path that compensates by handing the rows it touched their full
\* amount back
RollbackRefunds(t, w) ==
  [i \in DOMAIN t |->
     IF i \in DOMAIN w.pending THEN [t[i] EXCEPT !.remaining = t[i].amount]
                               ELSE t[i]]

\* defer tx.Rollback(): a call that returns before tx.Commit() succeeded
\* leaves the committed rows as they were
Rollback(t, w) == t

\* rows exhausted: if totalAvailable < amount { return ErrInsufficientFunds }
WCheck(p) ==
  /\ wd[p].pc = "lock"
  /\ wd[p].cand = <<>>
  /\ IF TotalAvailable(wd[p].availableTxs) < wd[p].amount
       THEN wd' = [wd EXCEPT ![p] = Finished(wd[p], "insufficient")]
       ELSE wd' = [wd EXCEPT ![p].pc = "deduct",
                             ![p].remainingToDeduct = wd[p].amount,
                             ![p].idx = 1]
  /\ UNCHANGED <<lots, clock, impl, gb, spent, withdrawn, api>>

\* rev1: if r.remaining >= remaining { r.remaining - remaining } else { 0 }
Rev1NewRemaining(rowRemaining, toDeduct) ==
  IF rowRemaining >= toDeduct THEN rowRemaining - toDeduct ELSE 0

Rev1Left(rowRemaining, toDeduct) ==
  IF rowRemaining >= toDeduct THEN 0 ELSE toDeduct - rowRemaining

\* the comparison of the clamp turned around
DeductMax(rowRemaining, toDeduct) ==
  IF toDeduct < rowRemaining THEN rowRemaining ELSE toDeduct

\* rev2: deductFromThis = min(remainingToDeduct, txRow.remainingAmount)
DeductFromThis(rowRemaining, toDeduct) ==
  IF toDeduct > rowRemaining THEN rowRemaining ELSE toDeduct

Rev2NewRemaining(rowRemaining, toDeduct) ==
  rowRemaining - DeductFromThis(rowRemaining, toDeduct)

\* the loop without "remainingToDeduct -= deductFromThis"
LeftSame(rowRemaining, toDeduct) == toDeduct

Rev2Left(rowRemaining, toDeduct) ==
  toDeduct - DeductFromThis(rowRemaining, toDeduct)

NewRemaining(rev, rowRemaining, toDeduct) ==
  IF rev = "rev1" THEN Rev1NewRemaining(rowRemaining, toDeduct)
                  ELSE Rev2NewRemaining(rowRemaining, toDeduct)

LeftToDeduct(rev, rowRemaining, toDeduct) ==
  IF rev = "rev1" THEN Rev1Left(rowRemaining, toDeduct)
                  ELSE Rev2Left(rowRemaining, toDeduct)

\* the loop without "if remainingToDeduct <= 0 { break }"
NoBreak(w) == w.idx > Len(w.availableTxs)

\* a loop that stops one row short
StopsEarly(w) == w.idx >= Len(w.availableTxs) \/ w.remainingToDeduct <= 0

LoopDone(w) == w.idx > Len(w.availableTxs) \/ w.remainingToDeduct <= 0

\* one pass of the deduction loop: UPDATE transactions SET remaining_amount
WDeduct(p) ==
  /\ wd[p].pc = "deduct"
  /\ ~LoopDone(wd[p])
  /\ LET r == wd[p].availableTxs[wd[p].idx]
         new == NewRemaining(impl, r.remainingAmount, wd[p].remainingToDeduct)
     IN IF ~wd[p].aborted /\ CheckConstraints(lots[r.id].amount, new)
          THEN /\ wd' = [wd EXCEPT
                 ![p].pending = (r.id :> new) @@ wd[p].pending,
                 ![p].remainingToDeduct =
                    LeftToDeduct(impl, r.remainingAmount, wd[p].remainingToDeduct),
                 ![p].idx = wd[p].idx + 1]
               /\ UNCHANGED lots
          ELSE /\ wd' = [wd EXCEPT ![p] = Finished(wd[p], "error")]
               /\ lots' = Rollback(lots, wd[p])
  /\ UNCHANGED <<clock, impl, gb, spent, withdrawn, api>>

\* points the loop took from each row it updated
Taken(w) ==
  [i \in DOMAIN w.pending |->
     LET k == CHOOSE k \in DOMAIN w.availableTxs : w.availableTxs[k].id = i
     IN w.availableTxs[k].remainingAmount - w.pending[i]]

\* tx.Commit(): the updated rows become the committed rows, locks are
\* released; the commit of a transaction a failed statement aborted fails
WCommit(p) ==
  /\ wd[p].pc = "deduct"
  /\ LoopDone(wd[p])
  /\ IF wd[p].aborted
       THEN /\ wd' = [wd EXCEPT ![p] = Finished(wd[p], "error")]
            /\ lots' = Rollback(lots, wd[p])
            /\ UNCHANGED <<spent, withdrawn>>
       ELSE /\ lots' = Commit(lots, wd[p])
            /\ spent' = [i \in DOMAIN spent |->
                           IF i \in DOMAIN wd[p].pending
                             THEN spent[i] + Taken(wd[p])[i]
                             ELSE spent[i]]
            /\ withdrawn' = [withdrawn EXCEPT ![wd[p].userId] = @ + wd[p].amount]
            /\ wd' = [wd EXCEPT ![p] = Finished(wd[p], "ok")]
  /\ UNCHANGED <<clock, impl, gb, api>>

\* a statement in flight fails (storage error, deadline of the context,
\* deadlock victim) and the call sees it: return err; the deferred
\* tx.Rollback() undoes every update and releases the locks
WFail(p) ==
  /\ \/ wd[p].pc \in {"begun", "deduct"}
     \/ wd[p].pc = "lock" /\ wd[p].cand # <<>>
  /\ ~wd[p].aborted
  /\ wd' = [wd EXCEPT ![p] = Finished(wd[p], "error")]
  /\ lots' = Rollback(lots, wd[p])
  /\ UNCHANGED <<clock, impl, gb, spent, withdrawn, api>>

\* rev2 leaves the loop "for rows.Next()" without looking at rows.Err(): when
\* the lock query fails after its first row has arrived (a failure before
\* that is the error QueryContext returns), the call goes on with the rows
\* read so far, in a transaction the database has aborted (no locks left)
WRowsEnd(p) ==
  /\ impl = "rev2"
  /\ wd[p].pc = "lock"
  /\ wd[p].cand # <<>>
  /\ wd[p].availableTxs # <<>>
  /\ wd' = [wd EXCEPT ![p].cand = <<>>, ![p].locked = {}, ![p].aborted = TRUE]
  /\ UNCHANGED <<lots, clock, impl, gb, spent, withdrawn, api>>

\* ------------------------------------------------ GetBalanceWithExpiration
\* the sum without "user_id = $1"
AllUsersBalance(t, u, now) ==
  SumOver(Remainings(t), {i \in DOMAIN t : t[i].expiresAt > now /\ t[i].remaining > 0})

\* the sum at isolation level READ UNCOMMITTED of a database that has one:
\* row versions written by transactions in flight are read
DirtyBalance(t, u, now) ==
  LET seen == [i \in DOMAIN t |->
                 IF \E p \in Procs : i \in DOMAIN wd[p].pending
                   THEN LET p == CHOOSE p \in Procs : i \in DOMAIN wd[p].pending
                        IN wd[p].pending[i]
                   ELSE t[i].remaining]
  IN SumOver(seen, {i \in DOMAIN t : t[i].userId = u /\ t[i].expiresAt > now})

\* SUM(...) over the rows S, as the one-column row the query returns: NULL
\* (the empty tuple) when S has no row
SqlSum(f, S) == IF S = {} THEN <<>> ELSE <<SumOver(f, S)>>

\* the column without COALESCE
NoCoalesce(v, d) == v

\* COALESCE(v, d)
Coalesce(v, d) == IF v = <<>> THEN <<d>> ELSE v

\* the row returned by SELECT COALESCE(SUM(remaining_amount), 0) ...
BalanceRow(t, u, now) ==
  Coalesce(SqlSum(Remainings(t), ActiveRows(t, u, now)), 0)

\* SELECT COALESCE(SUM(remaining_amount), 0) ... WHERE user_id = $1
\*   AND expires_at > NOW() AND remaining_amount > 0, scanned into an int
\* (which keeps its zero value when Scan fails)
BalanceQuery(t, u, now) == SumOver(Remainings(t), ActiveRows(t, u, now))

\* DATE(expires_at)
DateOf(ts) == ts \div DayLen

\* the breakdown without "expires_at > NOW()"
PastAndFuture(t, u, now) ==
  LET rows == {i \in DOMAIN t : /\ t[i].userId = u /\ t[i].remaining > 0
                                /\ t[i].expiresAt <= now + HorizonDays * DayLen}
      dates == {t[i].expiresAt \div DayLen : i \in rows}
  IN [d \in dates |->
        SumOver(Remainings(t), {i \in rows : t[i].expiresAt \div DayLen = d})]

\* the breakdown without "expires_at <= NOW() + INTERVAL '30 days'"
WholeFuture(t, u, now) ==
  LET rows == ActiveRows(t, u, now)
      dates == {t[i].expiresAt \div DayLen : i \in rows}
  IN [d \in dates |->
        SumOver(Remainings(t), {i \in rows : t[i].expiresAt \div DayLen = d})]

\* SELECT DATE(expires_at), SUM(remaining_amount) ... AND expires_at <= NOW()
\*   + INTERVAL '30 days' ... GROUP BY DATE(expires_at)
ExpirationQuery(t, u, now) ==
  LET rows == {i \in ActiveRows(t, u, now) :
                 t[i].expiresAt <= now + HorizonDays * DayLen}
      dates == {DateOf(t[i].expiresAt) : i \in rows}
  IN [d \in dates |->
        SumOver(Remainings(t), {i \in rows : DateOf(t[i].expiresAt) = d})]

\* return 0, nil, err
Failure(g) ==
  [g EXCEPT !.pc = "done", !.result = "error", !.totalBalance = 0,
            !.expirations = NoRows]

\* QueryRowContext(balance query).Scan(&totalBalance): a NULL cannot be
\* scanned into an int and is returned as an error
ScanBalance(g, t, u, now) ==
  IF BalanceRow(t, u, now) = <<>>
    THEN Failure([g EXCEPT !.userId = u])
    ELSE [g EXCEPT !.pc = "expirations", !.userId = u,
                   !.totalBalance = BalanceQuery(t, u, now)]

\* the balance query with FOR SHARE: it waits while a withdrawal holds the
\* lock of a row of the owner
LockingBalance(u) ==
  /\ gb.pc \in {"idle", "done"}
  /\ \A p \in Procs : \A i \in wd[p].locked : lots[i].userId # u
  /\ gb' = ScanBalance(IdleG, lots, u, clock)
  /\ UNCHANGED <<lots, clock, impl, wd, spent, withdrawn, api>>

\* a call starts: the balance query
GBalance(u) ==
  /\ gb.pc \in {"idle", "done"}
  /\ gb' = ScanBalance(IdleG, lots, u, clock)
  /\ UNCHANGED <<lots, clock, impl, wd, spent, withdrawn, api>>

\* the caller that got a result calls again for the same owner
GAgain ==
  /\ gb.pc = "done" /\ gb.result = "ok"
  /\ gb' = ScanBalance([IdleG EXCEPT !.prev =
                          [known |-> TRUE, totalBalance |-> gb.totalBalance,
                           expirations |-> gb.expirations]],
                       lots, gb.userId, clock)
  /\ UNCHANGED <<lots, clock, impl, wd, spent, withdrawn, api>>

\* the balance query fails (storage error, deadline): return 0, nil, err
GBalanceFail(u) ==
  /\ gb.pc \in {"idle", "done"}
  /\ gb' = Failure([IdleG EXCEPT !.userId = u, !.failed = TRUE])
  /\ UNCHANGED <<lots, clock, impl, wd, spent, withdrawn, api>>

\* the breakdown query, every row read: return totalBalance, expirations, nil
GExpirations ==
  /\ gb.pc = "expirations"
  /\ gb' = [gb EXCEPT !.pc = "done", !.result = "ok",
                      !.expirations = ExpirationQuery(lots, gb.userId, clock)]
  /\ UNCHANGED <<lots, clock, impl, wd, spent, withdrawn, api>>

\* what the call returns when the breakdown query fails, full being the
\* mapping a query without failure would give. rev1 returns the error of
\* QueryContext, rows.Scan and rows.Err. rev2 returns the balance with an
\* empty mapping when QueryContext fails, skips a row whose Scan fails
\* (continue) and never looks at rows.Err(), so it returns a nil error with
\* the entries of the rows it did read
BrokenBreakdown(rev, g, full) ==
  IF rev = "rev1"
    THEN {Failure(g)}
    ELSE {[g EXCEPT !.pc = "done", !.result = "ok",
                    !.expirations = [d \in D |-> full[d]]] :
            D \in {D \in SUBSET DOMAIN full : D # DOMAIN full \/ D = {}}}

\* the breakdown query fails, before its first row or among its rows
GExpirationsFail ==
  /\ gb.pc = "expirations"
  /\ gb' \in BrokenBreakdown(impl, [gb EXCEPT !.failed = TRUE],
                              ExpirationQuery(lots, gb.userId, clock))
  /\ UNCHANGED <<lots, clock, impl, wd, spent, withdrawn, api>>

\* ------------------------------------------------ createTransactionHandler
\* a request body: "lifetime_days" is present (given) with value days, or absent
Request(type, u, amount, given, days) ==
  [type |-> type, userId |-> u, amount |-> amount, given |-> given,
   days |-> IF given THEN days ELSE 0]

NoRequest == Request("deposit", "u1", 0, FALSE, 0)

\* state of a handler thread that has no request
IdleApi == [handler |-> "int", pc |-> "idle", req |-> NoRequest,
            status |-> "none", balance |-> 0, expirations |-> NoRows]

\* json.Unmarshal into "LifetimeDays int": an absent field leaves 0
DecodeInt(req) == IF req.given THEN req.days ELSE 0

\* if trxIn.LifetimeDays == 0 { trxIn.LifetimeDays = 365 }
IntLifetime(req) ==
  IF DecodeInt(req) = 0 THEN defaultLifetimeDays ELSE DecodeInt(req)

\* the validator of the handler with "LifetimeDays int"
IntValid(req) ==
  /\ req.amount > 0
  /\ req.type \in {"deposit", "withdrawal"}
  /\ req.type = "deposit" => IntLifetime(req) > 0

\* lifetimeDays := defaultLifetimeDays; if trxIn.LifetimeDays != nil { ... }
PtrLifetime(req) == IF req.given THEN req.days ELSE defaultLifetimeDays

\* the validator of the handler with "LifetimeDays *int"
PtrValid(req) ==
  /\ req.amount > 0
  /\ req.type \in {"deposit", "withdrawal"}
  /\ req.given => req.days > 0

Valid(h, req) == IF h = "int" THEN IntValid(req) ELSE PtrValid(req)

LifetimeOf(h, req) == IF h = "int" THEN IntLifetime(req) ELSE PtrLifetime(req)

ApiProc == 1     \* the call thread of the handler

\* POST /v1/transactions: validation, then AddBonusPoints for a deposit (one
\* statement) or the start of WithdrawBonusPoints for a withdrawal
ApiRequest(type, u, amount, given, days) ==
  LET req == Request(type, u, amount, given, days)
      fresh == [IdleApi EXCEPT !.handler = api.handler, !.req = req]
  IN /\ api.pc \in {"idle", "done"}
     /\ wd[ApiProc].pc = "idle"
     /\ IF ~Valid(api.handler, req)
          THEN /\ api' = [fresh EXCEPT !.pc = "done", !.status = "unprocessable"]
               /\ UNCHANGED <<lots, clock, impl, wd, gb, spent, withdrawn>>
          ELSE IF req.type = "deposit"
            THEN /\ AddBonusPoints(req.userId, req.amount,
                                   LifetimeOf(api.handler, req))
                 /\ api' = [fresh EXCEPT !.pc = "done",
                              !.status = IF CheckConstraints(req.amount, req.amount)
                                           THEN "created" ELSE "serverError"]
            ELSE /\ WBegin(ApiProc, req.userId, req.amount)
                 /\ api' = [fresh EXCEPT !.pc = "withdraw"]

\* WithdrawBonusPoints has returned: insufficient funds is a bad request, any
\* other error a server error, success goes on to read the balance
ApiWithdrawn ==
  /\ api.pc = "withdraw"
  /\ wd[ApiProc].pc = "idle" /\ wd[ApiProc].result # "none"
  /\ api' = IF wd[ApiProc].result = "insufficient"
              THEN [api EXCEPT !.pc = "done", !.status = "badRequest"]
            ELSE IF wd[ApiProc].result = "error"
              THEN [api EXCEPT !.pc = "done", !.status = "serverError"]
              ELSE [api EXCEPT !.pc = "balance"]
  /\ UNCHANGED <<lots, clock, impl, wd, gb, spent, withdrawn>>

\* GetBalanceWithExpiration for the response: the balance query
ApiBalance ==
  /\ api.pc = "balance"
  /\ api' = [api EXCEPT !.pc = "expirations",
                        !.balance = BalanceQuery(lots, api.req.userId, clock)]
  /\ UNCHANGED <<lots, clock, impl, wd, gb, spent, withdrawn>>

\* the expirations query, then the response 200
ApiRespond ==
  /\ api.pc = "expirations"
  /\ api' = [api EXCEPT !.pc = "done", !.status = "ok",
                        !.expirations = ExpirationQuery(lots, api.req.userId, clock)]
  /\ UNCHANGED <<lots, clock, impl, wd, gb, spent, withdrawn>>

\* ------------------------------------------------------------------- time
\* d clock ticks pass
Tick(d) ==
  /\ clock + d <= MaxTime
  /\ clock' = clock + d
  /\ UNCHANGED <<lots, impl, wd, gb, spent, withdrawn, api>>

\* ---------------------------------------------------------- specification
Owner == "u1"
CallAmounts == 1..MaxAmount      \* amounts the request handler lets through

\* AddBonusPoints called without the request handler
Grant(u, amount, lifetimeDays) ==
  AddBonusPoints(u, amount, lifetimeDays) /\ UNCHANGED api

\* WithdrawBonusPoints called without the request handler
Withdraw(p, u, amount) == WBegin(p, u, amount) /\ UNCHANGED api

\* the steps of the calls in flight
WSteps ==
  \E p \in Procs :
    \/ WQuery(p)
    \/ WLock(p)
    \/ WCheck(p)
    \/ WDeduct(p)
    \/ WCommit(p)

WFails ==
  \E p \in Procs :
    \/ WFail(p)
    \/ WRowsEnd(p)

\* one owner; grants, concurrent withdrawals and the passing of time
Init ==
  /\ lots = <<>>
  /\ clock = 0
  /\ impl = "rev2"
  /\ wd = [p \in Procs |-> IdleW]
  /\ gb = IdleG
  /\ spent = <<>>
  /\ withdrawn = [u \in Users |-> 0]
  /\ api = IdleApi

Next ==
  \/ \E a \in Amounts, l \in Lifetimes : Grant(Owner, a, l)
  \/ \E p \in 1..MaxConc, a \in CallAmounts : Withdraw(p, Owner, a)
  \/ WSteps
  \/ WFails
  \/ Tick(DayLen)

Spec == Init /\ [][Next]_vars

\* two owners, one thread withdrawing, one thread reading balances
NextRead ==
  \/ \E u \in Users, a \in Amounts, l \in Lifetimes : Grant(u, a, l)
  \/ \E a \in CallAmounts : Withdraw(1, Owner, a)
  \/ WSteps
  \/ \E u \in Users : GBalance(u)
  \/ GExpirations
  \/ Tick(1)

SpecRead == Init /\ [][NextRead]_vars

\* a table of FifoLots lots granted to one owner at different times with
\* different lifetimes (some expired by now, some tied on expires_at), then
\* withdrawals one after the other, under either revision
FifoGrants ==
  {NewLot(Owner, a, l, c) : a \in CallAmounts, l \in 1..3, c \in {0, DayLen}}

InitFifo ==
  /\ lots \in {t \in [1..FifoLots -> FifoGrants] :
                 \A i, j \in 1..FifoLots : i < j => t[i].createdAt <= t[j].createdAt}
  /\ clock = DayLen
  /\ impl \in Revisions
  /\ wd = [p \in Procs |-> IdleW]
  /\ gb = IdleG
  /\ spent = [i \in 1..FifoLots |-> 0]
  /\ withdrawn = [u \in Users |-> 0]
  /\ api = IdleApi

NextFifo ==
  \/ \E a \in 1..FifoAmount : Withdraw(1, Owner, a)
  \/ WSteps
  \/ WFails

SpecFifo == InitFifo /\ [][NextFifo]_vars

\* TestConcurrentWithdrawals, TestConcurrentWithdrawalsExceedBalance: one lot,
\* then every thread calls WithdrawBonusPoints with the same amount at once
InitConc ==
  /\ \E g \in 1..MaxGrant : lots = <<NewLot(Owner, g, 30, 0)>>
  /\ clock = 0
  /\ impl \in Revisions
  /\ \E a \in CallAmounts :
       wd = [p \in Procs |-> [IdleW EXCEPT !.pc = "begun", !.userId = Owner,
                                           !.amount = a, !.now = 0]]
  /\ gb = IdleG
  /\ spent = <<0>>
  /\ withdrawn = [u \in Users |-> 0]
  /\ api = IdleApi

NextConc ==
  \/ WSteps
  \/ \E p \in Procs : WFail(p)

SpecConc == InitConc /\ [][NextConc]_vars

\* requests to POST /v1/transactions, one at a time, under either handler
InitApi ==
  /\ lots = <<>>
  /\ clock = 0
  /\ impl \in Revisions
  /\ wd = [p \in Procs |-> IdleW]
  /\ gb = IdleG
  /\ spent = <<>>
  /\ withdrawn = [u \in Users |-> 0]
  /\ \E h \in Handlers : api = [IdleApi EXCEPT !.handler = h]

NextApi ==
  \/ \E type \in RequestTypes, a \in Amounts :
       \/ ApiRequest(type, Owner, a, FALSE, 0)
       \/ \E days \in GivenLifetimes : ApiRequest(type, Owner, a, TRUE, days)
  \/ WSteps
  \/ WFails
  \/ ApiWithdrawn
  \/ ApiBalance
  \/ ApiRespond

SpecApi == InitApi /\ [][NextApi]_vars

\* two owners: grants to both and withdrawals of both side by side
NextOwners ==
  \/ \E u \in Users, a \in CallAmounts : Grant(u, a, 1)
  \/ \E p \in 1..MaxConc, u \in Users, a \in CallAmounts : Withdraw(p, u, a)
  \/ WSteps

SpecOwners == Init /\ [][NextOwners]_vars

\* GetBalanceWithExpiration called, also repeatedly, for either owner on a
\* table that grants and withdrawals at instant 0 have left behind, read at
\* some instant; either query of a call may fail
BalanceLifetimes == {1, 2, 31}

BalanceRows ==
  {[NewLot(u, a, l, 0) EXCEPT !.remaining = r] :
     u \in Users, a \in CallAmounts, l \in BalanceLifetimes, r \in 0..MaxAmount}

InitBalance ==
  /\ lots \in UNION {[1..n -> {row \in BalanceRows : row.remaining <= row.amount}] :
                       n \in 0..MaxLots}
  /\ clock \in 0..MaxTime
  /\ impl \in Revisions
  /\ wd = [p \in Procs |-> IdleW]
  /\ gb = IdleG
  /\ spent = [i \in DOMAIN lots |-> lots[i].amount - lots[i].remaining]
  /\ withdrawn = [u \in Users |->
                    SumOver([i \in DOMAIN lots |-> lots[i].amount - lots[i].remaining],
                            {i \in DOMAIN lots : lots[i].userId = u})]
  /\ api = IdleApi

NextBalance ==
  \/ \E u \in Users : GBalance(u)
  \/ \E u \in Users : GBalanceFail(u)
  \/ GExpirations
  \/ GExpirationsFail
  \/ GAgain

SpecBalance == InitBalance /\ [][NextBalance]_vars

\* a withdrawal request that is answered "insufficient funds" and later
\* withdrawals of the same owner for at least that amount, with a third
\* thread withdrawing on its own and lots expiring, and no grant at all
RetryProc == 2     \* the call thread of the later withdrawals
OtherProc == 3     \* the call thread of the other withdrawals

RetryGrants == {NewLot(Owner, a, l, 0) : a \in CallAmounts, l \in 1..2}

InitRetry ==
  /\ lots \in [1..MaxLots -> RetryGrants]
  /\ clock = 0
  /\ impl \in Revisions
  /\ wd = [p \in Procs |-> IdleW]
  /\ gb = IdleG
  /\ spent = [i \in 1..MaxLots |-> 0]
  /\ withdrawn = [u \in Users |-> 0]
  /\ api = IdleApi

\* the later call: made once the request has been answered 400
Retry(b) ==
  /\ api.pc = "done" /\ api.status = "badRequest"
  /\ b >= api.req.amount
  /\ Withdraw(RetryProc, Owner, b)

\* the first request: a withdrawal, taken up once
FirstRequest(a) ==
  /\ api.pc = "idle"
  /\ ApiRequest("withdrawal", Owner, a, FALSE, 0)

NextRetry ==
  \/ \E a \in CallAmounts : FirstRequest(a)
  \/ \E b \in CallAmounts : Retry(b)
  \/ \E c \in CallAmounts : Withdraw(OtherProc, Owner, c)
  \/ WSteps
  \/ WFails
  \/ ApiWithdrawn
  \/ Tick(DayLen)

SpecRetry == InitRetry /\ [][NextRetry]_vars

\* withdrawal requests to POST /v1/transactions while another thread
\* withdraws for the same owner and grants come in
InitResponse ==
  /\ lots \in [1..1 -> RetryGrants]
  /\ clock = 0
  /\ impl \in Revisions
  /\ wd = [p \in Procs |-> IdleW]
  /\ gb = IdleG
  /\ spent = <<0>>
  /\ withdrawn = [u \in Users |-> 0]
  /\ \E h \in Handlers : api = [IdleApi EXCEPT !.handler = h]

NextResponse ==
  \/ \E a \in CallAmounts : ApiRequest("withdrawal", Owner, a, FALSE, 0)
  \/ \E c \in CallAmounts : Withdraw(OtherProc, Owner, c)
  \/ \E a \in CallAmounts, l \in 1..2 : Grant(Owner, a, l)
  \/ WSteps
  \/ WFails
  \/ ApiWithdrawn
  \/ ApiBalance
  \/ ApiRespond

SpecResponse == InitResponse /\ [][NextResponse]_vars

\* two withdrawals of one owner that have begun, over one or two lots that
\* may tie on expires_at and on created_at, with grants in between
LockProcs == 1..MaxConc

LockGrants ==
  {NewLot(Owner, a, l, c) : a \in CallAmounts, l \in 1..2, c \in {0, DayLen}}

InitLocks ==
  /\ \E n \in 1..MaxLots :
       /\ lots \in [1..n -> LockGrants]
       /\ spent = [i \in 1..n |-> 0]
  /\ \A i, j \in DOMAIN lots : i < j => lots[i].createdAt <= lots[j].createdAt
  /\ clock = DayLen
  /\ impl \in Revisions
  /\ \E a \in [LockProcs -> CallAmounts] :
       wd = [p \in Procs |->
               IF p \in LockProcs
                 THEN [IdleW EXCEPT !.pc = "begun", !.userId = Owner,
                                    !.amount = a[p], !.now = DayLen]
                 ELSE IdleW]
  /\ gb = IdleG
  /\ withdrawn = [u \in Users |-> 0]
  /\ api = IdleApi

NextLocks ==
  \/ \E a \in CallAmounts, l \in 1..2 : Grant(Owner, a, l)
  \/ WSteps
  \/ WFails

SpecLocks == InitLocks /\ [][NextLocks]_vars

\* WithdrawBonusPoints called without the request handler's validation, with
\* amounts that are negative, zero or positive, by two threads, over lots
\* that earlier withdrawals may have drawn on
DirectAmounts == (-1)..1

DirectRows ==
  {[NewLot(Owner, a, l, 0) EXCEPT !.remaining = r] :
     a \in CallAmounts, l \in 1..2, r \in 0..MaxAmount}

InitDirect ==
  /\ lots \in [1..MaxLots -> {row \in DirectRows : row.remaining <= row.amount}]
  /\ \A i \in DOMAIN lots : lots[i].expiresAt = i * DayLen
  /\ clock = 0
  /\ impl \in Revisions
  /\ wd = [p \in Procs |-> IdleW]
  /\ gb = IdleG
  /\ spent = [i \in DOMAIN lots |-> lots[i].amount - lots[i].remaining]
  /\ withdrawn = [u \in Users |-> IF u = Owner THEN SumOver(spent, DOMAIN spent) ELSE 0]
  /\ api = IdleApi

\* a call is made while the sum of the amounts withdrawn is within bounds
DirectCall(p, a) ==
  /\ withdrawn[Owner] > -MaxAmount
  /\ Withdraw(p, Owner, a)

NextDirect ==
  \/ \E p \in LockProcs, a \in DirectAmounts : DirectCall(p, a)
  \/ WSteps
  \/ WFails

SpecDirect == InitDirect /\ [][NextDirect]_vars

\* the deduction loop of revision rev run to its end on the rows and the
\* amount of w, every UPDATE succeeding
RECURSIVE DeductAll(_, _)
DeductAll(rev, w) ==
  IF LoopDone(w) THEN w
  ELSE LET r == w.availableTxs[w.idx] IN
       DeductAll(rev,
         [w EXCEPT !.pending = (r.id :> NewRemaining(rev, r.remainingAmount,
                                                     w.remainingToDeduct)) @@ w.pending,
                   !.remainingToDeduct =
                      LeftToDeduct(rev, r.remainingAmount, w.remainingToDeduct),
                   !.idx = w.idx + 1])

\* the two deduction loops side by side: thread 1 is at the loop of rev1 and
\* thread 2 at the loop of rev2, each with the same ordered list of locked
\* rows (all with points left, as the lock query returns them) and the same
\* amount, which the funds check has let through
LoopRows ==
  {[NewLot(Owner, a, 1, 0) EXCEPT !.remaining = r] :
     a \in CallAmounts, r \in 1..MaxAmount}

InitLoops ==
  /\ lots \in UNION {[1..n -> {row \in LoopRows : row.remaining <= row.amount}] :
                       n \in 0..FifoLots}
  /\ clock = 0
  /\ impl \in Revisions
  /\ \E a \in (-1)..SumOver(Remainings(lots), DOMAIN lots) :
       wd = [p \in Procs |->
               IF p \in LockProcs
                 THEN [IdleW EXCEPT
                         !.pc = "deduct", !.userId = Owner, !.amount = a,
                         !.locked = IF p = 1 THEN DOMAIN lots ELSE {},
                         !.availableTxs =
                            [i \in DOMAIN lots |->
                               [id |-> i, remainingAmount |-> lots[i].remaining]],
                         !.remainingToDeduct = a]
                 ELSE IdleW]
  /\ gb = IdleG
  /\ spent = [i \in DOMAIN lots |-> lots[i].amount - lots[i].remaining]
  /\ withdrawn = [u \in Users |-> IF u = Owner THEN SumOver(spent, DOMAIN spent) ELSE 0]
  /\ api = IdleApi

\* both loops run
RunLoops ==
  /\ wd[1].pc = "deduct" /\ wd[1].idx = 1
  /\ wd' = [wd EXCEPT ![1] = DeductAll("rev1", wd[1]),
                      ![2] = DeductAll("rev2", wd[2])]
  /\ UNCHANGED <<lots, clock, impl, gb, spent, withdrawn, api>>

SpecLoops == InitLoops /\ [][RunLoops]_vars

\* the steps a call takes by itself once the database has answered
OwnStep(p) == WQuery(p) \/ WCheck(p) \/ WDeduct(p) \/ WCommit(p)

\* the call is blocked on a row lock another transaction holds
Blocked(p) ==
  /\ wd[p].pc = "lock" /\ wd[p].cand # <<>>
  /\ LockedByOther(p, Head(wd[p].cand))

\* context.WithTimeout(ctx, 5*time.Second) and the deadlock detector of the
\* database end a lock wait that does not end by itself
WaitEnds(p) == Blocked(p) /\ WFail(p)

\* goroutines and database backends are scheduled fairly, a row lock that
\* is free often enough is obtained, and a wait that lasts is timed out
Fairness ==
  \A p \in Procs :
    /\ WF_vars(OwnStep(p))
    /\ SF_vars(WLock(p))
    /\ WF_vars(WaitEnds(p))

FairLocks == SpecLocks /\ Fairness

\* ------------------------------------------------------------ properties
\* what the specification calls an active lot of owner u at instant now
IsActive(t, i, u, now) ==
  t[i].userId = u /\ t[i].expiresAt > now /\ t[i].remaining > 0

ActiveSum(t, u, now) ==
  SumOver(Remainings(t), {i \in DOMAIN t : IsActive(t, i, u, now)})

Holds(p) == wd[p].pc \in {"lock", "deduct"} /\ ~wd[p].aborted

\* C1: concurrent withdrawals of one owner are serial: no row is locked by
\* two transactions, the remaining amounts a withdrawal checks and deducts
\* from are the ones every committed withdrawal left behind, and the points
\* the committed withdrawals took from a lot are exactly the points it lost
C1_Serial ==
  /\ \A p, q \in Procs : p # q => wd[p].locked \cap wd[q].locked = {}
  /\ \A p \in Procs : Holds(p) =>
        \A k \in DOMAIN wd[p].availableTxs :
          /\ wd[p].availableTxs[k].id \in wd[p].locked
          /\ lots[wd[p].availableTxs[k].id].remaining
               = wd[p].availableTxs[k].remainingAmount
  /\ \A i \in DOMAIN lots : spent[i] + lots[i].remaining = lots[i].amount

\* a withdrawal waits for a row whose holder has an uncommitted update, on a
\* table an earlier withdrawal has already drawn on
C1_Witness ==
  \E p, q \in Procs :
    /\ p # q
    /\ wd[p].pc = "deduct" /\ DOMAIN wd[p].pending # {}
    /\ wd[q].pc = "lock" /\ wd[q].cand # <<>>
    /\ Head(wd[q].cand) \in wd[p].locked
    /\ \E i \in DOMAIN lots : spent[i] > 0

AllReturned == \A p \in Procs : wd[p].pc = "idle" /\ wd[p].result # "none"

NoFailure == \A p \in Procs : wd[p].result # "error" /\ ~wd[p].aborted

Count(res) == Cardinality({p \in Procs : wd[p].result = res})

\* C2: k concurrent withdrawals of a points from one lot of G points, none of
\* them failing: min(k, G div a) succeed, the others get InsufficientFunds,
\* and the balance ends at G - a * successes
C2_ConcurrentOutcome ==
  [][\A p \in Procs :
       (wd[p].pc # "idle" /\ AllReturned' /\ NoFailure') =>
         LET a == wd[p].amount
             G == lots[1].amount
             ok == Min(NumProcs, G \div a)
         IN /\ Count("ok")' = ok
            /\ Count("insufficient")' = NumProcs - ok
            /\ ActiveSum(lots', Owner, clock') = G - a * ok]_vars

\* two of three withdrawals succeeded, the third found the lot empty
C2_Witness ==
  /\ AllReturned
  /\ Count("ok") = 2 /\ Count("insufficient") = 1
  /\ lots[1].amount = 2 /\ lots[1].remaining = 0

\* C3: every row, committed or written by a transaction in flight, keeps
\* 0 <= remaining_amount <= amount
C3_RemainingInRange ==
  /\ \A i \in DOMAIN lots : 0 <= lots[i].remaining /\ lots[i].remaining <= lots[i].amount
  /\ \A p \in Procs : \A i \in DOMAIN wd[p].pending :
        0 <= wd[p].pending[i] /\ wd[p].pending[i] <= lots[i].amount

\* a withdrawal has emptied one row and holds a partial update of a second
\* one while the other thread is inside a call of its own
C3_Witness ==
  \E p, q \in Procs :
    /\ p # q /\ wd[q].pc # "idle"
    /\ \E i, j \in DOMAIN wd[p].pending :
         /\ wd[p].pending[i] = 0
         /\ 0 < wd[p].pending[j] /\ wd[p].pending[j] < lots[j].amount

\* C4: a withdrawal whose lock query went through and that asks for more
\* than the owner's active lots hold at that time returns InsufficientFunds
\* and changes no row
C4_InsufficientNoChange ==
  [][\A p \in Procs :
       (/\ wd[p].pc = "lock" /\ wd[p].cand = <<>> /\ ~wd[p].aborted
        /\ wd'[p] # wd[p]
        /\ wd[p].amount > ActiveSum(lots, wd[p].userId, wd[p].now)) =>
         /\ wd'[p].pc = "idle" /\ wd'[p].result = "insufficient"
         /\ wd[p].pending = NoRows
         /\ lots' = lots]_vars

\* InsufficientFunds came back although the owner has points left
C4_Witness ==
  \E p \in Procs :
    /\ wd[p].result = "insufficient" /\ ~wd[p].aborted
    /\ ActiveSum(lots, Owner, clock) > 0
    /\ \E i \in DOMAIN lots : spent[i] > 0

Amounts_(t) == [i \in DOMAIN t |-> t[i].amount]

Max0(x) == IF x > 0 THEN x ELSE 0

\* thread p commits a withdrawal in this step
Commits(p) == wd[p].pc = "deduct" /\ wd'[p].pc = "idle" /\ wd'[p].result = "ok"

Loss(i) == lots[i].remaining - lots'[i].remaining

ActiveOf(p) ==
  {i \in DOMAIN lots : IsActive(lots, i, wd[p].userId, wd[p].now)}

\* C5: a successful withdrawal consumes the owner's active lots by ascending
\* expires_at: a lot loses points only if every active lot expiring before it
\* ends at 0, it loses min(remaining, amount still needed), at most one lot
\* is left partially consumed, and no other lot changes
C5_FifoByExpiry ==
  [][\A p \in Procs : Commits(p) =>
       LET A == ActiveOf(p)
           a == wd[p].amount
           rem == Remainings(lots)
           Sooner(j) == {i \in A : lots[i].expiresAt < lots[j].expiresAt}
           NotLater(j) == {i \in A \ {j} : lots[i].expiresAt <= lots[j].expiresAt}
       IN /\ \A j \in DOMAIN lots : j \notin A => lots'[j] = lots[j]
          /\ \A j \in A :
               /\ Loss(j) > 0 => \A i \in Sooner(j) : lots'[i].remaining = 0
               /\ Loss(j) <= Min(rem[j], Max0(a - SumOver(rem, Sooner(j))))
               /\ Loss(j) >= Min(rem[j], Max0(a - SumOver(rem, NotLater(j))))
          /\ Cardinality({j \in A : 0 < lots'[j].remaining /\ Loss(j) > 0}) <= 1]_vars

\* three active lots with three expiry instants: the first emptied, the
\* second partially consumed, the third untouched
C5_Witness ==
  \E i, j, k \in DOMAIN lots :
    /\ clock < lots[i].expiresAt
    /\ lots[i].expiresAt < lots[j].expiresAt /\ lots[j].expiresAt < lots[k].expiresAt
    /\ spent[i] = lots[i].amount
    /\ 0 < spent[j] /\ spent[j] < lots[j].amount
    /\ spent[k] = 0
    /\ wd[1].result = "ok"

Unexpired(u) == {i \in DOMAIN lots : lots[i].userId = u /\ lots[i].expiresAt > clock}

Balance(u) == SumOver(Remainings(lots), Unexpired(u))

\* C6 as stated: balance >= 0, and the amounts of all successful withdrawals
\* plus the balance equal the granted amounts of the lots not yet expired
C6_AsStated ==
  \A u \in Users :
    /\ Balance(u) >= 0
    /\ withdrawn[u] + Balance(u) = SumOver(Amounts_(lots), Unexpired(u))

\* C6 amended: balance >= 0, and the points withdrawn from lots not yet
\* expired plus the balance equal the granted amounts of the lots not yet
\* expired; with all withdrawals counted the equation holds as long as no
\* lot that was drawn on has expired
C6_Conservation ==
  \A u \in Users :
    /\ Balance(u) >= 0
    /\ SumOver(spent, Unexpired(u)) + Balance(u) = SumOver(Amounts_(lots), Unexpired(u))
    /\ (\A i \in DOMAIN lots : lots[i].userId = u /\ spent[i] > 0 => i \in Unexpired(u))
         => withdrawn[u] + Balance(u) = SumOver(Amounts_(lots), Unexpired(u))

\* a lot that was drawn on has expired with points left, and a later
\* withdrawal has drawn on a lot that is still alive
C6_Witness ==
  \E i, j \in DOMAIN lots :
    /\ lots[i].expiresAt <= clock /\ spent[i] > 0 /\ lots[i].remaining > 0
    /\ lots[j].expiresAt > clock /\ spent[j] > 0 /\ lots[j].remaining > 0

\* the balance query of GetBalanceWithExpiration runs in this step
ReadsBalance == gb'.pc = "expirations" /\ gb' # gb

\* the breakdown query of GetBalanceWithExpiration runs in this step
ReadsExpirations == gb.pc = "expirations" /\ gb'.pc = "done"

\* C7: the balance GetBalanceWithExpiration returns is the sum of
\* remaining_amount over the rows of that owner, and of no other, that have
\* expires_at > now; it is computed from the rows each time
C7_BalanceDerived ==
  [][ReadsBalance =>
       gb'.totalBalance =
         SumOver(Remainings(lots),
                 {i \in DOMAIN lots : lots[i].userId = gb'.userId
                                      /\ lots[i].expiresAt > clock})]_vars

\* a balance was read for an owner with a partly withdrawn lot while the
\* other owner holds points too
C7_Witness ==
  /\ gb.pc = "expirations" /\ gb.totalBalance > 0
  /\ \E i, j \in DOMAIN lots :
       /\ lots[i].userId = gb.userId /\ spent[i] > 0
       /\ lots[i].remaining = gb.totalBalance
       /\ lots[j].userId # gb.userId /\ lots[j].remaining > 0
       /\ lots[j].expiresAt > clock

Expired(u) == {i \in DOMAIN lots : lots[i].userId = u /\ lots[i].expiresAt <= clock}

\* C8: a lot with expires_at <= now adds nothing to the balance and nothing
\* to the expirations breakdown, whatever its remaining_amount
C8_ExpiredExcluded ==
  [][/\ ReadsBalance =>
          gb'.totalBalance =
            SumOver(Remainings(lots), {i \in DOMAIN lots : lots[i].userId = gb'.userId})
            - SumOver(Remainings(lots), Expired(gb'.userId))
     /\ ReadsExpirations =>
          \A d \in DOMAIN gb'.expirations :
            LET alive == {i \in Unexpired(gb.userId) : lots[i].expiresAt \div DayLen = d}
            IN /\ alive # {}
               /\ gb'.expirations[d] <= SumOver(Remainings(lots), alive)]_vars

\* a result was returned while the owner had an expired lot with points
\* left and a live lot expiring on the same calendar date
C8_Witness ==
  /\ gb.pc = "done"
  /\ \E i, j \in DOMAIN lots :
       /\ lots[i].userId = gb.userId /\ lots[j].userId = gb.userId
       /\ lots[i].expiresAt <= clock /\ lots[i].remaining > 0
       /\ lots[j].expiresAt > clock
       /\ lots[i].expiresAt \div DayLen = lots[j].expiresAt \div DayLen
       /\ gb.totalBalance = lots[j].remaining
       /\ DOMAIN gb.expirations = {lots[j].expiresAt \div DayLen}
       /\ gb.expirations[lots[j].expiresAt \div DayLen] = lots[j].remaining

NowOf(p) == wd[p].now

\* C9: WithdrawBonusPoints never reads, locks or updates a row with
\* expires_at <= NOW() of its transaction, and an owner whose only rows with
\* points left are expired gets InsufficientFunds for any positive amount
C9_ExpiredNotWithdrawn ==
  [][\A p \in Procs :
       /\ \A k \in DOMAIN wd[p].availableTxs :
            lots[wd[p].availableTxs[k].id].expiresAt > NowOf(p)
       /\ \A i \in wd[p].locked \cup DOMAIN wd[p].pending : lots[i].expiresAt > NowOf(p)
       /\ Commits(p) =>
            \A i \in DOMAIN lots : lots[i].expiresAt <= NowOf(p) => lots'[i] = lots[i]
       /\ (/\ wd[p].pc = "lock" /\ wd[p].cand = <<>> /\ ~wd[p].aborted
           /\ wd'[p] # wd[p]
           /\ wd[p].amount > 0
           /\ \A i \in DOMAIN lots :
                lots[i].userId = wd[p].userId /\ lots[i].remaining > 0
                  => lots[i].expiresAt <= NowOf(p))
            => wd'[p].pc = "idle" /\ wd'[p].result = "insufficient"]_vars

\* InsufficientFunds came back to an owner all of whose lots have expired
\* with their points left
C9_Witness ==
  /\ wd[1].result = "insufficient" /\ ~wd[1].aborted
  /\ \A i \in DOMAIN lots : lots[i].expiresAt <= clock /\ lots[i].remaining > 0

\* C10: of two rows with the same expires_at, WithdrawBonusPoints consumes
\* the one created earlier first
C10_EarlierCreatedFirst ==
  \A p \in Procs : \A a, b \in DOMAIN wd[p].availableTxs :
    LET x == lots[wd[p].availableTxs[a].id]
        y == lots[wd[p].availableTxs[b].id]
    IN (a < b /\ x.expiresAt = y.expiresAt) => x.createdAt <= y.createdAt

\* thread p leaves WithdrawBonusPoints in this step without having committed
Fails(p) == wd[p].pc # "idle" /\ wd'[p].pc = "idle" /\ wd'[p].result # "ok"

\* C11: a withdrawal that ends in any way other than a successful commit
\* (failed lock query, failed update in the middle of the loop, deadline
\* while waiting for a lock, failed commit) changes no row: the updates it
\* had already made are discarded and every remaining_amount is what it was
C11_FailureRollsBack ==
  [][\A p \in Procs : Fails(p) =>
       /\ lots' = lots
       /\ wd'[p].pending = NoRows /\ wd'[p].locked = {}
       /\ wd'[p].undone = Cardinality(DOMAIN wd[p].pending)
       /\ \A i \in DOMAIN lots : spent[i] + lots'[i].remaining = lots[i].amount]_vars

\* a call failed after the loop had updated two rows, and both rows still
\* hold every point they were granted
C11_Witness ==
  \E p \in Procs :
    /\ wd[p].result = "error" /\ wd[p].undone >= 2
    /\ \A i \in DOMAIN lots : lots[i].remaining = lots[i].amount

\* the owner's balance with, for each of the withdrawals in the set done,
\* all of its row updates applied, and none of any other withdrawal in flight
BalanceWith(u, done) ==
  SumOver([i \in DOMAIN lots |->
             IF \E p \in done : i \in DOMAIN wd[p].pending
               THEN LET p == CHOOSE p \in done : i \in DOMAIN wd[p].pending
                    IN wd[p].pending[i]
               ELSE lots[i].remaining],
          {i \in DOMAIN lots : lots[i].userId = u /\ lots[i].expiresAt > clock})

\* C12: the balance GetBalanceWithExpiration reads while withdrawals are in
\* flight is the sum over the committed rows, in which every committed
\* withdrawal is applied in full (the points taken from the owner's rows are
\* the amounts withdrawn) and no update of a withdrawal in flight shows
C12_NoPartialWithdrawal ==
  [][ReadsBalance =>
       LET u == gb'.userId IN
       /\ gb'.totalBalance = BalanceWith(u, {})
       /\ SumOver(spent, {i \in DOMAIN lots : lots[i].userId = u}) = withdrawn[u]
       /\ \A p \in Procs :
            (wd[p].userId = u /\ DOMAIN wd[p].pending # {}
              /\ Cardinality(DOMAIN wd[p].pending) < Len(wd[p].availableTxs)
              /\ BalanceWith(u, {p}) # BalanceWith(u, {}))
              => gb'.totalBalance # BalanceWith(u, {p})]_vars

\* a balance was read while a withdrawal that needs two rows had updated
\* only the first of them: it is the balance before the withdrawal
C12_Witness ==
  /\ gb.pc = "expirations" /\ gb.userId = wd[1].userId
  /\ wd[1].pc = "deduct" /\ ~LoopDone(wd[1])
  /\ Cardinality(DOMAIN wd[1].pending) = 1 /\ Len(wd[1].availableTxs) = 2
  /\ gb.totalBalance = TotalAvailable(wd[1].availableTxs)
  /\ gb.totalBalance > wd[1].amount

\* the owner's lots with points left that expire within the horizon
Expiring(u) ==
  {i \in DOMAIN lots : /\ lots[i].userId = u /\ lots[i].remaining > 0
                       /\ clock < lots[i].expiresAt
                       /\ lots[i].expiresAt <= clock + HorizonDays * DayLen}

\* the owner's lots with points left that expire after the horizon
Beyond(u) ==
  {i \in DOMAIN lots : /\ lots[i].userId = u /\ lots[i].remaining > 0
                       /\ lots[i].expiresAt > clock + HorizonDays * DayLen}

Range(s) == {s[k] : k \in DOMAIN s}

\* thread p waits for the lock of a row in this state
Waits(p) ==
  /\ wd[p].pc = "lock" /\ wd[p].cand # <<>>
  /\ \E q \in Procs \ {p} : Head(wd[p].cand) \in wd[q].locked

\* this step is the commit of a withdrawal of owner u or a grant to owner u
StepOf(u) ==
  \/ \E p \in Procs : Commits(p) /\ wd[p].userId = u
  \/ Len(lots') = Len(lots) + 1 /\ lots'[Len(lots')].userId = u

LotsOf(t, u) == {i \in DOMAIN t : t[i].userId = u}

\* C14: a withdrawal reads, locks and waits for rows of its own owner only,
\* so it never waits while no other withdrawal of the same owner holds a
\* lock; and no grant or withdrawal of one owner changes a row, the balance
\* or the expirations of another owner
C14_OwnersIndependent ==
  [][/\ \A p \in Procs :
          /\ \A i \in Range(wd[p].cand) \cup wd[p].locked \cup DOMAIN wd[p].pending :
               lots[i].userId = wd[p].userId
          /\ Waits(p) => \E q \in Procs \ {p} :
                            wd[q].userId = wd[p].userId /\ wd[q].locked # {}
     /\ \A u \in Users :
          (lots' # lots /\ ~StepOf(u)) =>
            /\ LotsOf(lots', u) = LotsOf(lots, u)
            /\ \A i \in LotsOf(lots, u) : lots'[i] = lots[i]
            /\ BalanceQuery(lots', u, clock') = BalanceQuery(lots, u, clock)
            /\ ExpirationQuery(lots', u, clock') = ExpirationQuery(lots, u, clock)]_vars

\* withdrawals of two owners hold row locks at the same time, one of them
\* with an update made, and the other owner's lot is as granted
C14_Witness ==
  \E p, q \in Procs :
    /\ wd[p].userId # wd[q].userId
    /\ wd[p].pc = "deduct" /\ DOMAIN wd[p].pending # {}
    /\ wd[q].locked # {} /\ wd[q].pc \in {"lock", "deduct"}
    /\ \E i \in DOMAIN lots : spent[i] > 0

\* C15: a successful AddBonusPoints(u, a, l) appends exactly one row, under
\* an id no row had, with user_id = u, amount = remaining_amount = a,
\* created_at = now and expires_at = now + l days; it changes no row that
\* was there, also when u already has a row with that expires_at; u's
\* balance rises by a
C15_GrantAddsOneLot ==
  [][\A u \in Users, a \in Amounts, l \in Lifetimes :
       (AddBonusPoints(u, a, l) /\ lots' # lots) =>
         LET id == Len(lots) + 1 IN
         /\ DOMAIN lots' = DOMAIN lots \cup {id} /\ id \notin DOMAIN lots
         /\ \A i \in DOMAIN lots : lots'[i] = lots[i]
         /\ lots'[id].userId = u
         /\ lots'[id].amount = a /\ lots'[id].remaining = a /\ a > 0
         /\ lots'[id].createdAt = clock
         /\ lots'[id].expiresAt = clock + l * DayLen
         /\ ActiveSum(lots', u, clock') = ActiveSum(lots, u, clock) + a]_vars

\* the owner holds two lots with the same expires_at, the first of them
\* partly withdrawn before the second was granted
C15_Witness ==
  /\ Len(lots) = 2
  /\ lots[1].userId = lots[2].userId /\ lots[1].expiresAt = lots[2].expiresAt
  /\ 0 < spent[1] /\ spent[1] < lots[1].amount
  /\ lots[2].remaining = lots[2].amount
  /\ \A p \in Procs : wd[p].pc = "idle"

\* rows thread p has asked the database to lock
LockSet(w) == Range(w.cand) \cup w.locked

\* C16: AddBonusPoints can always run, whatever locks withdrawals hold; the
\* rows a withdrawal locks, sums and updates are fixed by its lock query, so
\* a row granted afterwards is neither counted in totalAvailable nor updated
\* and keeps remaining_amount = amount when the withdrawal commits
C16_GrantAndWithdraw ==
  [][/\ Len(lots) < MaxLots => ENABLED AddBonusPoints(Owner, 1, 1)
     /\ Len(lots') = Len(lots) + 1 =>
          /\ wd' = wd
          /\ lots'[Len(lots')].remaining = lots'[Len(lots')].amount
          /\ \A p \in Procs : Len(lots') \notin LockSet(wd'[p])
     /\ \A p \in Procs :
          /\ (wd[p].pc \in {"lock", "deduct"} /\ wd'[p].pc \in {"lock", "deduct"})
               => LockSet(wd'[p]) \subseteq LockSet(wd[p])
          /\ (wd[p].pc = "lock" /\ wd[p].cand = <<>> /\ ~wd[p].aborted)
               => TotalAvailable(wd[p].availableTxs)
                    = SumOver(Remainings(lots), wd[p].locked)
          /\ Commits(p) =>
               \A i \in DOMAIN lots : i \notin wd[p].locked => lots'[i] = lots[i]]_vars

\* a withdrawal is about to commit its updates while the owner has an
\* active lot, granted after the lock query, that it has not locked
C16_Witness ==
  \E p \in Procs :
    /\ wd[p].pc = "deduct" /\ ~wd[p].aborted /\ LoopDone(wd[p])
    /\ DOMAIN wd[p].pending # {}
    /\ \E i \in DOMAIN lots :
         /\ IsActive(lots, i, wd[p].userId, wd[p].now)
         /\ i \notin wd[p].locked
         /\ lots[i].remaining = lots[i].amount

\* the handler takes up a request in this step
Receives == api.pc \in {"idle", "done"} /\ api' # api

\* C17: a request with amount <= 0, and a deposit that gives lifetime_days
\* <= 0, is answered with a validation failure and creates or changes no row
C17_InvalidRejected ==
  [][(/\ Receives
      /\ \/ api'.req.amount <= 0
         \/ api'.req.type = "deposit" /\ api'.req.given /\ api'.req.days <= 0)
       => /\ api'.status = "unprocessable"
          /\ lots' = lots /\ wd' = wd]_vars

\* thread p is past its lock query and decides on the funds in this step
Decides(p) == wd[p].pc = "lock" /\ wd[p].cand = <<>> /\ wd'[p] # wd[p]

\* C18: WithdrawBonusPoints returns InsufficientFunds only when the owner's
\* active lots hold less than the amount, goes on to deduct when they hold
\* enough and nothing failed, and the handler answers InsufficientFunds, and
\* nothing else, with a bad request
C18_InsufficientOnlyWhenShort ==
  [][/\ \A p \in Procs : Decides(p) =>
          /\ wd'[p].result = "insufficient"
               => ActiveSum(lots, wd[p].userId, wd[p].now) < wd[p].amount
          /\ (~wd[p].aborted /\ ActiveSum(lots, wd[p].userId, wd[p].now) >= wd[p].amount)
               => wd'[p].pc = "deduct"
     /\ (api.pc = "withdraw" /\ api' # api) =>
          /\ api'.status = "badRequest" <=> wd[ApiProc].result = "insufficient"
          /\ api'.status = "serverError" <=> wd[ApiProc].result = "error"]_vars

\* C19: a withdrawal of exactly the sum of remaining_amount of the owner's
\* active lots passes the funds check and, when it commits, leaves every one
\* of those lots at 0 and the owner's balance at 0
C19_ExactAmountEmptiesAll ==
  [][\A p \in Procs :
       LET exact == /\ wd[p].amount > 0
                    /\ wd[p].amount = ActiveSum(lots, wd[p].userId, wd[p].now)
       IN /\ (Decides(p) /\ ~wd[p].aborted /\ exact) => wd'[p].pc = "deduct"
          /\ (wd[p].pc = "deduct" /\ ~wd[p].aborted /\ wd'[p].pc = "idle" /\ exact)
               => wd'[p].result \in {"ok", "error"}
          /\ (Commits(p) /\ exact) =>
               /\ \A i \in ActiveOf(p) : lots'[i].remaining = 0
               /\ ActiveSum(lots', wd[p].userId, wd[p].now) = 0]_vars

\* the owner's three live lots are empty after the whole balance was withdrawn
C19_Witness ==
  /\ wd[1].result = "ok"
  /\ withdrawn[Owner] = FifoAmount
  /\ \A i \in DOMAIN lots :
       lots[i].expiresAt > clock /\ lots[i].remaining = 0 /\ spent[i] = lots[i].amount

\* C20: rows are never deleted and their id, user_id, amount, created_at
\* and expires_at never change; the table grows by one row per grant and by
\* nothing else; remaining_amount changes only when a withdrawal commits,
\* and then only in rows of its owner that were active for it
C20_LotsImmutable ==
  [][/\ Len(lots') >= Len(lots)
     /\ Len(lots') > Len(lots) => Len(lots') = Len(lots) + 1 /\ wd' = wd
     /\ \A i \in DOMAIN lots :
          /\ lots'[i].userId = lots[i].userId
          /\ lots'[i].amount = lots[i].amount
          /\ lots'[i].createdAt = lots[i].createdAt
          /\ lots'[i].expiresAt = lots[i].expiresAt
          /\ lots'[i].remaining # lots[i].remaining =>
               \E p \in Procs :
                 Commits(p) /\ IsActive(lots, i, wd[p].userId, wd[p].now)]_vars

\* after a withdrawal: a lot of the withdrawing owner that had expired with
\* points left, a lot it drew on, both with the fields they were granted
C20_Witness ==
  /\ wd[1].result = "ok"
  /\ \E i, j \in DOMAIN lots :
       /\ lots[i].userId = Owner /\ lots[j].userId = Owner
       /\ lots[i].expiresAt <= clock /\ lots[i].remaining = lots[i].amount
       /\ lots[j].expiresAt > clock /\ spent[j] > 0
       /\ lots[i].createdAt < lots[j].createdAt

\* the lot is expired or depleted at instant now
Inactive(t, i, now) == t[i].expiresAt <= now \/ t[i].remaining = 0

\* C21: in every step (grant, any step of a withdrawal, commit, rollback,
\* passing of time) the clock does not go back, no remaining_amount rises,
\* no update a transaction holds exceeds the row's committed value, and a
\* lot that is expired or depleted stays expired or depleted
C21_OneWay ==
  [][/\ clock' >= clock
     /\ \A i \in DOMAIN lots :
          /\ lots'[i].remaining <= lots[i].remaining
          /\ Inactive(lots, i, clock) => Inactive(lots', i, clock')
          /\ \A p \in Procs : i \in DOMAIN wd'[p].pending
                                => wd'[p].pending[i] <= lots[i].remaining]_vars

\* a withdrawal that had updated a row was rolled back while the table held
\* a lot depleted by an earlier withdrawal and a lot that expired with points
C21_Witness ==
  /\ \E p \in Procs : wd[p].result = "error" /\ wd[p].undone >= 1
  /\ \E i, j \in DOMAIN lots :
       /\ lots[i].remaining = 0 /\ lots[i].expiresAt > clock
       /\ lots[j].remaining > 0 /\ lots[j].expiresAt <= clock

\* a call of GetBalanceWithExpiration returns in this step
Returns == gb.pc # "done" /\ gb'.pc = "done"

\* C22: for an owner without any row, the balance query yields 0 and the
\* call goes on to the breakdown, and a call none of whose queries failed
\* returns a nil error, balance 0 and an empty expirations mapping
C22_NoLotsNoError ==
  [][LotsOf(lots, gb'.userId) = {} =>
       /\ (gb.pc \in {"idle", "done"} /\ gb' # gb /\ ~gb'.failed)
            => gb'.pc = "expirations" /\ gb'.totalBalance = 0
       /\ (Returns /\ ~gb'.failed)
            => /\ gb'.result = "ok"
               /\ gb'.totalBalance = 0
               /\ gb'.expirations = NoRows]_vars

\* a call for an owner without rows has returned while the other owner
\* holds a live lot with points
C22_Witness ==
  /\ gb.pc = "done" /\ gb.result = "ok" /\ ~gb.failed
  /\ LotsOf(lots, gb.userId) = {}
  /\ \E i \in DOMAIN lots : lots[i].expiresAt > clock /\ lots[i].remaining > 0

\* C23: a call repeated for the same owner at the same instant, with no grant
\* and no withdrawal in between, returns the balance and the expirations
\* mapping the call before it returned
C23_IdempotentRead ==
  (gb.pc = "done" /\ gb.result = "ok" /\ gb.prev.known) =>
     /\ gb.totalBalance = gb.prev.totalBalance
     /\ gb.expirations = gb.prev.expirations

\* C25: a call of GetBalanceWithExpiration in which the balance query or the
\* breakdown query failed (before its first row, at a row, or between rows)
\* returns an error, never a balance and a mapping with a nil error
C25_FailureReported ==
  [][(Returns /\ gb'.failed) => gb'.result = "error"]_vars

\* C24: once a withdrawal of amount a has been answered InsufficientFunds,
\* no later withdrawal of the same owner for b >= a succeeds as long as no
\* grant to that owner commits, whatever other withdrawals commit or fail
\* and whatever lots expire in between
C24_StaysInsufficient ==
  [][(/\ api.pc = "done" /\ api.status = "badRequest"
      /\ wd[RetryProc].amount >= api.req.amount
      /\ lots' # lots)
       => ~Commits(RetryProc)]_vars

\* C26: a valid deposit request without lifetime_days is answered 201 and
\* adds one lot with expires_at = created_at + 365 days; one with a positive
\* lifetime_days = d adds one lot with expires_at = created_at + d days
C26_DepositLifetime ==
  [][(/\ Receives
      /\ api'.req.type = "deposit" /\ api'.req.amount > 0
      /\ ~api'.req.given \/ api'.req.days > 0)
       => LET d == IF api'.req.given THEN api'.req.days ELSE 365
              n == Len(lots')
          IN /\ api'.status = "created"
             /\ n = Len(lots) + 1
             /\ lots'[n].createdAt = clock
             /\ lots'[n].expiresAt = lots'[n].createdAt + d * DayLen]_vars

\* the table holds a lot of a deposit that named no lifetime and a lot of a
\* deposit that asked for one day
C26_Witness ==
  /\ api.status = "created" /\ api.req.given
  /\ \E i, j \in DOMAIN lots :
       /\ lots[i].expiresAt - lots[i].createdAt = 365 * DayLen
       /\ lots[j].expiresAt - lots[j].createdAt = DayLen

\* sum of remaining_amount over every row of the table
Total(t) == SumOver(Remainings(t), DOMAIN t)

\* C27 as stated: a withdrawal of amount > 0 that commits takes exactly
\* amount from the owner's lots, and the balance GetBalanceWithExpiration
\* would return right after it is the balance it would have returned right
\* before it minus amount
C27_AsStated ==
  [][\A p \in Procs : (Commits(p) /\ wd[p].amount > 0) =>
       /\ Total(lots) - Total(lots') = wd[p].amount
       /\ BalanceQuery(lots', wd[p].userId, clock')
            = BalanceQuery(lots, wd[p].userId, clock) - wd[p].amount]_vars

\* C27 amended: a withdrawal of amount > 0 that commits lowers no row by less
\* than 0, changes only rows of its owner that were active at its
\* transaction's NOW(), and lowers their total by exactly amount; the
\* balance right after it is the balance right before it minus amount when
\* none of those lots has expired by the time of the commit
C27_ExactDeduction ==
  [][\A p \in Procs : (Commits(p) /\ wd[p].amount > 0) =>
       LET u == wd[p].userId IN
       /\ Total(lots) - Total(lots') = wd[p].amount
       /\ \A i \in DOMAIN lots :
            /\ Loss(i) >= 0
            /\ Loss(i) > 0 => i \in ActiveOf(p)
       /\ ActiveSum(lots', u, wd[p].now) = ActiveSum(lots, u, wd[p].now) - wd[p].amount
       /\ (\A i \in ActiveOf(p) : lots[i].expiresAt > clock)
            => BalanceQuery(lots', u, clock') = BalanceQuery(lots, u, clock) - wd[p].amount]_vars

\* a withdrawal of 2 has committed after taking one point from each of two
\* lots, and the owner's balance is 0
C27_Witness ==
  /\ \E p \in Procs : wd[p].result = "ok"
  /\ Len(lots) = 2 /\ spent[1] = 1 /\ spent[2] = 1
  /\ withdrawn[Owner] = 2
  /\ BalanceQuery(lots, Owner, clock) = 0

\* none of the owner's lots has expired
NoneExpired(t, u, now) == \A i \in LotsOf(t, u) : t[i].expiresAt > now

\* sum of the amounts granted to the owner
Granted(t, u) == SumOver(Amounts_(t), LotsOf(t, u))

\* C28: as long as none of an owner's lots has expired, after every step of
\* an interleaving of grants and withdrawals the owner's balance is the sum
\* of the amounts granted minus the sum of the amounts of the withdrawals
\* that succeeded, and that is the balance GetBalanceWithExpiration reads
C28_BalanceIsGrantsMinusWithdrawals ==
  [][/\ \A u \in Users : NoneExpired(lots', u, clock') =>
          BalanceQuery(lots', u, clock') = Granted(lots', u) - withdrawn'[u]
     /\ (ReadsBalance /\ NoneExpired(lots, gb'.userId, clock)) =>
          gb'.totalBalance = Granted(lots, gb'.userId) - withdrawn[gb'.userId]]_vars

\* a balance was read for an owner with two live lots, after two
\* withdrawals of 1 and with a third withdrawal half done
C28_Witness ==
  /\ gb.pc = "expirations" /\ gb.userId = Owner
  /\ Len(lots) = 2 /\ NoneExpired(lots, Owner, clock)
  /\ LotsOf(lots, Owner) = {1, 2}
  /\ withdrawn[Owner] = 2 /\ spent[1] = 2
  /\ gb.totalBalance = Granted(lots, Owner) - 2 /\ gb.totalBalance > 0
  /\ wd[1].pc = "deduct" /\ DOMAIN wd[1].pending # {}

\* thread p returns from WithdrawBonusPoints in this step
Leaves(p) == wd[p].pc # "idle" /\ wd'[p].pc = "idle"

\* C29: the row locks of a withdrawal are kept while its transaction lasts
\* and are all gone when the call returns, whatever it returns; a call that
\* is blocked on a row lock does not stay blocked, and every call returns
C29_LocksReleased ==
  /\ [][\A p \in Procs :
          /\ Leaves(p) => wd'[p].locked = {}
          /\ (Holds(p) /\ wd'[p].pc \in {"lock", "deduct"} /\ ~wd'[p].aborted)
               => wd[p].locked \subseteq wd'[p].locked]_vars
  /\ [](\A p \in Procs : wd[p].pc = "idle" => wd[p].locked = {})
  /\ \A p \in Procs : Blocked(p) ~> ~Blocked(p)
  /\ \A p \in Procs : (wd[p].pc # "idle") ~> (wd[p].pc = "idle")

\* one call is blocked on a row whose holder has read all its rows and is
\* about to return ErrInsufficientFunds
C29_Witness ==
  \E p, q \in Procs :
    /\ p # q
    /\ Blocked(p)
    /\ Head(wd[p].cand) \in wd[q].locked
    /\ wd[q].pc = "lock" /\ wd[q].cand = <<>>
    /\ TotalAvailable(wd[q].availableTxs) < wd[q].amount

\* C30: concurrent withdrawals of one owner never deadlock: there are no two
\* calls each blocked on a row lock the other holds, whether lots tie on
\* expires_at or a grant adds a lot between the two lock queries
C30_NoDeadlock ==
  \A p, q \in Procs :
    p # q =>
      ~ /\ Blocked(p) /\ Head(wd[p].cand) \in wd[q].locked
        /\ Blocked(q) /\ Head(wd[q].cand) \in wd[p].locked

\* the withdrawals in flight that hold the lock of a row of owner u
HoldersOf(u) ==
  {p \in Procs : wd[p].userId = u /\ Holds(p) /\ wd[p].locked # {}}

\* C31: GetBalanceWithExpiration changes no row and takes no lock, its
\* queries can run whatever locks the withdrawals hold, and the balance it
\* reads while a withdrawal of the owner holds locks is the balance before
\* that withdrawal: the rows as the withdrawal would leave them plus the
\* points it has deducted so far
C31_ReadOnlyLockFree ==
  [][/\ (ReadsBalance \/ ReadsExpirations) => (lots' = lots /\ wd' = wd)
     /\ \A u \in Users : gb.pc \in {"idle", "done"} => ENABLED GBalance(u)
     /\ gb.pc = "expirations" => ENABLED GExpirations
     /\ (ReadsBalance /\ HoldersOf(gb'.userId) # {})
          => /\ gb'.totalBalance = ActiveSum(lots, gb'.userId, clock)
             /\ \A p \in HoldersOf(gb'.userId) :
                  (\A i \in DOMAIN wd[p].pending : lots[i].expiresAt > clock)
                    => gb'.totalBalance =
                         BalanceWith(gb'.userId, {p})
                           + (IF wd[p].pc = "deduct"
                                THEN wd[p].amount - wd[p].remainingToDeduct
                                ELSE 0)]_vars

\* a balance was read for the owner of a withdrawal that has updated all
\* its rows, still holds their locks and has not committed
C31_Witness ==
  /\ gb.pc = "expirations" /\ gb.userId = wd[1].userId
  /\ wd[1].pc = "deduct" /\ LoopDone(wd[1]) /\ ~wd[1].aborted
  /\ wd[1].locked # {} /\ DOMAIN wd[1].pending # {}
  /\ gb.totalBalance = TotalAvailable(wd[1].availableTxs)

\* the withdrawal of the request has committed and the handler has not yet
\* read the balance for the response
Answering ==
  /\ api.pc \in {"withdraw", "balance"}
  /\ wd[ApiProc].pc = "idle" /\ wd[ApiProc].result = "ok"

OwnerBalance == BalanceQuery(lots, api.req.userId, clock)

\* C32: the balance in the response to a successful withdrawal request is
\* the balance right before that withdrawal committed minus its amount: the
\* commit lowers the balance by the amount, the balance stays what it is
\* until the handler reads it, and the handler responds with what it read
C32_ResponseIsNewBalance ==
  [][/\ (api.pc = "withdraw" /\ Commits(ApiProc))
          => OwnerBalance' = OwnerBalance - api.req.amount
     /\ Answering => OwnerBalance' = OwnerBalance
     /\ (api.pc = "balance" /\ api'.pc = "expirations")
          => api'.balance = OwnerBalance
     /\ (api.pc = "expirations" /\ api'.pc = "done")
          => api'.balance = api.balance /\ api'.status = "ok"]_vars

\* C33: in every result GetBalanceWithExpiration returns, the amounts of the
\* expirations mapping add up to no more than the balance, also when a grant
\* or a withdrawal of the owner commits between its two queries
C33_BreakdownWithinBalance ==
  (gb.pc = "done" /\ gb.result = "ok")
    => SumOver(gb.expirations, DOMAIN gb.expirations) <= gb.totalBalance

\* C34: a call of WithdrawBonusPoints with amount <= 0 changes no row: it
\* never has an update pending, and none of its steps, its commit included,
\* changes remaining_amount of any lot
C34_NonPositiveChangesNothing ==
  [][\A p \in Procs :
       (wd[p].pc # "idle" /\ wd[p].amount <= 0)
         => /\ wd'[p].pending = NoRows
            /\ wd'[p] # wd[p] => Remainings(lots') = Remainings(lots)]_vars

\* a call with a negative amount has locked a row that has points left and
\* room for more, found the funds sufficient and is about to commit
C34_Witness ==
  \E p \in Procs :
    /\ wd[p].pc = "deduct" /\ wd[p].amount < 0 /\ ~wd[p].aborted
    /\ \E i \in wd[p].locked :
         lots[i].remaining > 0 /\ lots[i].remaining < lots[i].amount

\* C35: run on the same ordered list of locked rows with the same amount,
\* not more than the rows hold, the branch-based loop of rev1 and the
\* min-based loop of rev2 leave every lot with the same remaining_amount
C35_LoopsAgree ==
  (LoopDone(wd[1]) /\ LoopDone(wd[2]))
    => Remainings(Commit(lots, wd[1])) = Remainings(Commit(lots, wd[2]))

\* both loops have emptied the first of three rows, taken part of the second
\* and left the third alone
C35_Witness ==
  /\ Len(lots) = 3 /\ wd[1].idx = 3 /\ wd[2].idx = 3
  /\ DOMAIN wd[1].pending = {1, 2} /\ DOMAIN wd[2].pending = {1, 2}
  /\ wd[1].pending[1] = 0 /\ wd[1].pending[2] > 0
  /\ wd[2].pending[1] = 0 /\ wd[2].pending[2] > 0

TypeOK ==
  /\ clock \in 0..MaxTime
  /\ \A i \in DOMAIN lots : lots[i].userId \in Users
  /\ Len(spent) = Len(lots)

====
